---- MODULE Spec2Model ----
(***************************************************************************)
(* AuraScribe, src/main.py: the /analyze request pipeline.                 *)
(*                                                                         *)
(*   analyze_audio      save the upload, transcribe it, extract a          *)
(*                      structured note, always clean the artifact up      *)
(*   call_with_retries  3 attempts, exponential backoff with jitter on     *)
(*                      transient-classified failures                      *)
(*   get_hindi_mock_data  the fixed fallback document                      *)
(*                                                                         *)
(* Text that the code inspects character by character (error messages,     *)
(* filenames, transcripts, JSON strings) is a tuple of one-character       *)
(* strings.  Text the code only produces (the prefixes of its own          *)
(* messages) is a TLA+ string.                                             *)
(***************************************************************************)
EXTENDS Integers, Sequences, FiniteSets, TLC

(***************************************************************************)
(* Bounds of the model.                                                    *)
(***************************************************************************)
\* Requests the server may see.
NumReq == 2
\* random.random() * 0.5 takes JitterSteps values: jitter j stands for
\* j / (2 * JitterSteps) time units, so it ranges over [0, 0.5).
JitterSteps == 2

Requests == 1..NumReq
Jitters == 0..(JitterSteps - 1)
\* Ticks in one time unit (the unit of base_delay).
TicksPerUnit == 2 * JitterSteps

(***************************************************************************)
(* Program constants.                                                      *)
(***************************************************************************)
max_retries == 3
base_delay == 1
\* for attempt in range(2)
validation_attempts == 2

(***************************************************************************)
(* Text helpers: str.lower, the `in` substring test, str.endswith,         *)
(* str.strip.                                                              *)
(***************************************************************************)
UpperCase == <<"A","B","C","D","E","F","G","H","I","J","K","L","M",
               "N","O","P","Q","R","S","T","U","V","W","X","Y","Z">>
LowerCase == <<"a","b","c","d","e","f","g","h","i","j","k","l","m",
               "n","o","p","q","r","s","t","u","v","w","x","y","z">>

LowerChar(c) ==
    IF \E i \in DOMAIN UpperCase : UpperCase[i] = c
    THEN LowerCase[CHOOSE i \in DOMAIN UpperCase : UpperCase[i] = c]
    ELSE c

Lower(s) == [i \in DOMAIN s |-> LowerChar(s[i])]

Contains(hay, needle) ==
    \E i \in 1..(Len(hay) - Len(needle) + 1) :
        SubSeq(hay, i, i + Len(needle) - 1) = needle

EndsWith(s, suffix) ==
    /\ Len(s) >= Len(suffix)
    /\ SubSeq(s, Len(s) - Len(suffix) + 1, Len(s)) = suffix

Whitespace == {" ", "\t", "\n"}

RECURSIVE LStrip(_)
LStrip(s) == IF s # <<>> /\ Head(s) \in Whitespace THEN LStrip(Tail(s)) ELSE s

RECURSIVE RStrip(_)
RStrip(s) ==
    IF s # <<>> /\ s[Len(s)] \in Whitespace
    THEN RStrip(SubSeq(s, 1, Len(s) - 1))
    ELSE s

Strip(s) == RStrip(LStrip(s))

(***************************************************************************)
(* Exceptions.  type: the Python class; text: the message when the code    *)
(* wrote it; msg: the message when a collaborator wrote it; fields: the    *)
(* field names a ValueError lists; inv: which invocation of the current    *)
(* call_with_retries threw it (the identity of the failure object);        *)
(* status: the status_code of an HTTPException.                            *)
(***************************************************************************)
Exc(type, text, msg, fields, inv, status) ==
    [type |-> type, text |-> text, msg |-> msg, fields |-> fields,
     inv |-> inv, status |-> status]

NoExc == Exc("none", "", <<>>, <<>>, 0, 0)

\* Messages of the failures the OpenAI client raises.
RateLimitMsg == <<"R","a","t","e"," ","l","i","m","i","t"," ","r","e","a","c","h","e","d">>
ConnectionMsg == <<"C","o","n","n","e","c","t","i","o","n"," ","e","r","r","o","r",".">>
TimedOutMsg == <<"R","e","q","u","e","s","t"," ","t","i","m","e","d"," ","o","u","t",".">>
AuthMsg == <<"I","n","c","o","r","r","e","c","t"," ","A","P","I"," ","k","e","y">>

ErrMsgs == <<RateLimitMsg, ConnectionMsg, TimedOutMsg, AuthMsg>>

ApiError(m, inv) == Exc("APIError", "", ErrMsgs[m], <<>>, inv, 0)

\* The substrings line 76 looks for.
TransientMarks ==
    << <<"r","a","t","e"," ","l","i","m","i","t">>,
       <<"q","u","o","t","a">>,
       <<"s","e","r","v","e","r"," ","e","r","r","o","r">>,
       <<"c","o","n","n","e","c","t","i","o","n">>,
       <<"t","i","m","e","o","u","t">> >>

\* str(e) of a collaborator's failure.
StrOf(e) == e.msg

\* Line 75-76: error_str = str(e).lower(); "rate limit" in error_str or ...
IsTransient(e) ==
    LET error_str == Lower(StrOf(e))
    IN  \E k \in DOMAIN TransientMarks : Contains(error_str, TransientMarks[k])

(***************************************************************************)
(* call_with_retries: one iteration of its loop.  failed: the operation    *)
(* threw e; jitter: the value random.random() * 0.5 took.  The result      *)
(* says how the iteration ends: the call returns the operation's value,    *)
(* raises e, or sleeps `delay` ticks and goes round again.                 *)
(***************************************************************************)
RECURSIVE Pow2(_)
Pow2(n) == IF n = 0 THEN 1 ELSE 2 * Pow2(n - 1)

\* Line 78: delay = (base_delay * (2 ** attempt)) + (random.random() * 0.5)
BackoffDelay(att, jitter) == base_delay * Pow2(att) * TicksPerUnit + jitter

\* Mutants of CwrIteration.
\* The last attempt is not special: a transient failure sleeps and the loop
\* then ends without raising.
CwrIterationNoLast(att, failed, e, jitter) ==
    IF ~failed THEN [next |-> "return", delay |-> 0]
    ELSE IF IsTransient(e)
         THEN [next |-> "sleep", delay |-> BackoffDelay(att, jitter)]
         ELSE [next |-> "raise", delay |-> 0]

\* The loop goes round once more than max_retries.
CwrIterationOneMore(att, failed, e, jitter) ==
    IF ~failed THEN [next |-> "return", delay |-> 0]
    ELSE IF att = max_retries THEN [next |-> "raise", delay |-> 0]
    ELSE IF IsTransient(e)
         THEN [next |-> "sleep", delay |-> BackoffDelay(att, jitter)]
         ELSE [next |-> "raise", delay |-> 0]

\* The backoff does not grow: the delay is base_delay + jitter every time.
CwrIterationFlat(att, failed, e, jitter) ==
    IF ~failed THEN [next |-> "return", delay |-> 0]
    ELSE IF att = max_retries - 1 THEN [next |-> "raise", delay |-> 0]
    ELSE IF IsTransient(e)
         THEN [next |-> "sleep", delay |-> base_delay * TicksPerUnit + jitter]
         ELSE [next |-> "raise", delay |-> 0]

\* Every failure is retried, whatever its message.
CwrIterationRetryAll(att, failed, e, jitter) ==
    IF ~failed THEN [next |-> "return", delay |-> 0]
    ELSE IF att = max_retries - 1 THEN [next |-> "raise", delay |-> 0]
    ELSE [next |-> "sleep", delay |-> BackoffDelay(att, jitter)]

\* Lines 68-82.
CwrIteration(att, failed, e, jitter) ==
    IF ~failed THEN [next |-> "return", delay |-> 0]
    ELSE IF att = max_retries - 1 THEN [next |-> "raise", delay |-> 0]
    ELSE IF IsTransient(e)
         THEN [next |-> "sleep", delay |-> BackoffDelay(att, jitter)]
         ELSE [next |-> "raise", delay |-> 0]

(***************************************************************************)
(* The artifact path, lines 90-92.                                         *)
(***************************************************************************)
TempPrefix == <<"t","e","m","p","_">>
WavSuffix == <<".","w","a","v">>

TempFilePath(name) ==
    LET temp_file_path == TempPrefix \o name
    IN  IF ~EndsWith(temp_file_path, WavSuffix)
        THEN temp_file_path \o WavSuffix
        ELSE temp_file_path

\* The filenames uploads carry: "visit.wav", "visit" and "note.mp3".
Filenames ==
    { <<"v","i","s","i","t",".","w","a","v">>,
      <<"v","i","s","i","t">>,
      <<"n","o","t","e",".","m","p","3">> }

Paths == { TempFilePath(name) : name \in Filenames }

(***************************************************************************)
(* JSON values as json.loads builds them.  t: "obj", "list", "str",        *)
(* "num" or "null"; s: the characters of a str; m: the members of an obj,  *)
(* a function from its keys; l: the items of a list.                       *)
(***************************************************************************)
JVal(t, s, m, l) == [t |-> t, s |-> s, m |-> m, l |-> l]
JStr(s) == JVal("str", s, <<>>, <<>>)
JObj(m) == JVal("obj", <<>>, m, <<>>)
JList(l) == JVal("list", <<>>, <<>>, l)
JNull == JVal("null", <<>>, <<>>, <<>>)
JNum == JVal("num", <<>>, <<>>, <<>>)

\* Python's None where a JSON value is expected (analysis = None).
PyNone == JNull

\* d[key] = value on a dict.
SetItem(d, key, value) ==
    JObj([k \in (DOMAIN d.m) \cup {key} |-> IF k = key THEN value ELSE d.m[k]])

\* The characters of the keys the code looks up.
KeyChars ==
    [note |-> <<"n","o","t","e">>,
     questions |-> <<"q","u","e","s","t","i","o","n","s">>,
     presenting_complaints |-> <<"p","r","e","s","e","n","t","i","n","g","_","c","o","m","p","l","a","i","n","t","s">>,
     past_history |-> <<"p","a","s","t","_","h","i","s","t","o","r","y">>,
     investigations_ordered |-> <<"i","n","v","e","s","t","i","g","a","t","i","o","n","s","_","o","r","d","e","r","e","d">>,
     diagnosis |-> <<"d","i","a","g","n","o","s","i","s">>,
     treatment |-> <<"t","r","e","a","t","m","e","n","t">>,
     follow_up |-> <<"f","o","l","l","o","w","_","u","p">>]

\* Python's `key in v`: "yes", "no", or "TypeError" when v is not a container.
PyIn(key, v) ==
    CASE v.t = "obj" -> IF key \in DOMAIN v.m THEN "yes" ELSE "no"
      [] v.t = "list" ->
            IF \E i \in DOMAIN v.l : v.l[i].t = "str" /\ v.l[i].s = KeyChars[key]
            THEN "yes" ELSE "no"
      [] v.t = "str" -> IF Contains(v.s, KeyChars[key]) THEN "yes" ELSE "no"
      [] OTHER -> "TypeError"

\* Python's v[key] with a str key: only a dict can be indexed by a string.
PyGetItemFails(key, v) == v.t # "obj"

\* Python's truth value of a JSON value (`if not analysis`).
Truthy(v) ==
    CASE v.t = "obj" -> DOMAIN v.m # {}
      [] v.t = "list" -> v.l # <<>>
      [] v.t = "str" -> v.s # <<>>
      [] v.t = "num" -> TRUE
      [] OTHER -> FALSE

(***************************************************************************)
(* What the generation call returns: message.content, a text.  The text    *)
(* is represented by what json.loads makes of it: wellformed, with the     *)
(* value it denotes, or not, with the decoder's complaint.                 *)
(***************************************************************************)
Content(wellformed, value, complaint) ==
    [wellformed |-> wellformed, value |-> value, complaint |-> complaint]

\* Line 226: json.loads(content).
JsonLoads(content) ==
    IF content.wellformed
    THEN [ok |-> TRUE, value |-> content.value, exc |-> NoExc]
    ELSE [ok |-> FALSE, value |-> PyNone,
          exc |-> Exc("JSONDecodeError", content.complaint, <<>>, <<>>, 0, 0)]

\* Lines 232-233.
required_fields ==
    <<"presenting_complaints", "past_history", "investigations_ordered",
      "diagnosis", "treatment", "follow_up">>

RECURSIVE MissingFrom(_, _)
\* Line 234: [f for f in required_fields if f not in note], from index i on.
MissingFrom(note, i) ==
    IF i > Len(required_fields) THEN <<>>
    ELSE (IF PyIn(required_fields[i], note) = "no"
          THEN <<required_fields[i]>> ELSE <<>>) \o MissingFrom(note, i + 1)

\* A mutant of Validate: "questions" is required too.
ValidateQuestionsRequired(content) ==
    LET parsed == JsonLoads(content)
        a == parsed.value
    IN  IF ~parsed.ok THEN [res |-> "decode", analysis |-> PyNone, exc |-> parsed.exc]
        ELSE IF PyIn("note", a) # "yes" \/ PyIn("questions", a) # "yes"
        THEN [res |-> "value", analysis |-> a,
              exc |-> Exc("ValueError", "Response missing 'note' field", <<>>, <<>>, 0, 0)]
        ELSE [res |-> "ok", analysis |-> a, exc |-> NoExc]

\* Lines 226-243: parse and validate one payload.  res: "ok" (break),
\* "decode" (JSONDecodeError), "value" (ValueError) or "other" (any other
\* exception); analysis: the value the variable analysis holds when the
\* try block is left (PyNone: it was not assigned).
Validate(content) ==
    LET parsed == JsonLoads(content)
        a == parsed.value
        TypeErr == Exc("TypeError", "argument is not iterable", <<>>, <<>>, 0, 0)
        IndexErr == Exc("TypeError", "indices must be integers", <<>>, <<>>, 0, 0)
    IN  IF ~parsed.ok
        THEN [res |-> "decode", analysis |-> PyNone, exc |-> parsed.exc]
        ELSE IF PyIn("note", a) = "TypeError"
        THEN [res |-> "other", analysis |-> a, exc |-> TypeErr]
        ELSE IF PyIn("note", a) = "no"
        THEN [res |-> "value", analysis |-> a,
              exc |-> Exc("ValueError", "Response missing 'note' field", <<>>, <<>>, 0, 0)]
        ELSE IF PyGetItemFails("note", a)
        THEN [res |-> "other", analysis |-> a, exc |-> IndexErr]
        ELSE IF PyIn(required_fields[1], a.m["note"]) = "TypeError"
        THEN [res |-> "other", analysis |-> a, exc |-> TypeErr]
        ELSE LET missing_fields == MissingFrom(a.m["note"], 1)
             IN  IF missing_fields # <<>>
                 THEN [res |-> "value", analysis |-> a,
                       exc |-> Exc("ValueError", "Note missing required fields: ",
                                   <<>>, missing_fields, 0, 0)]
                 ELSE [res |-> "ok",
                       analysis |-> IF PyIn("questions", a) = "no"
                                    THEN SetItem(a, "questions", JList(<<>>))
                                    ELSE a,
                       exc |-> NoExc]

(***************************************************************************)
(* get_hindi_mock_data, lines 285-301.  The texts are cut to their first   *)
(* words; the transcript (Devanagari in the source) is transliterated.     *)
(***************************************************************************)
get_hindi_mock_data ==
    JObj([note |-> JObj(
              [presenting_complaints |-> JStr(<<"S","e","v","e","r","e"," ","h","e","a","d","a","c","h","e">>),
               past_history |-> JStr(<<"m","i","l","d"," ","h","y","p","e","r","t","e","n","s","i","o","n">>),
               investigations_ordered |-> JStr(<<"C","B","C",","," ","D","e","n","g","u","e"," ","N","S","1">>),
               diagnosis |-> JStr(<<"V","i","r","a","l"," ","F","e","v","e","r">>),
               treatment |-> JStr(<<"T","a","b","."," ","P","a","r","a","c","e","t","a","m","o","l">>),
               follow_up |-> JStr(<<"R","e","t","u","r","n"," ","i","n"," ","4","8"," ","h","o","u","r","s">>)]),
          questions |-> JList(<< JStr(<<"K","y","a"," ","a","a","p","k","o"," ","t","h","a","n","d","?">>),
                                 JStr(<<"B","o","d","y"," ","r","a","s","h","?">>) >>),
          transcript |-> JStr(<<"n","a","m","a","s","t","e"," ","d","o","c","t","o","r">>)])

\* Line 98: "API Key is missing or placeholder. Please update .env file."
KeyMissingError == JStr(<<"A","P","I"," ","K","e","y"," ","i","s"," ","m","i","s","s","i","n","g">>)

\* The error field of a returned document as the response model reads it:
\* None when the key is absent.
ErrorOf(doc) == IF "error" \in DOMAIN doc.m THEN doc.m["error"] ELSE JNull

(***************************************************************************)
(* The response model of the route, lines 48-60 and 84: the framework      *)
(* validates the value the handler returns against ClinicalDocumentation   *)
(* and sends the fields of the model.                                      *)
(***************************************************************************)
\* Lines 48-54: the six fields, each a str.
MedicalNote(v) ==
    /\ v.t = "obj"
    /\ \A i \in DOMAIN required_fields :
          /\ required_fields[i] \in DOMAIN v.m
          /\ v.m[required_fields[i]].t = "str"

\* Lines 56-60: note, questions (a list of str), transcript (a str), and
\* error, a str when it is given.
ClinicalDocumentation(v) ==
    /\ v.t = "obj"
    /\ {"note", "questions", "transcript"} \subseteq DOMAIN v.m
    /\ MedicalNote(v.m["note"])
    /\ v.m["questions"].t = "list"
    /\ \A i \in DOMAIN v.m["questions"].l : v.m["questions"].l[i].t = "str"
    /\ v.m["transcript"].t = "str"
    /\ "error" \in DOMAIN v.m => v.m["error"].t = "str"

\* The body sent for a value that passed: the model's fields and no other.
ResponseOf(v) ==
    JObj([note |-> JObj([f \in {required_fields[i] : i \in DOMAIN required_fields}
                            |-> v.m["note"].m[f]]),
          questions |-> v.m["questions"],
          transcript |-> v.m["transcript"],
          error |-> ErrorOf(v)])

(***************************************************************************)
(* The collaborators' answers the model draws from.                        *)
(***************************************************************************)
\* settings.openai_api_key: unset, the placeholder, a real key.
ApiKeys == {"", "your_api_key_here", "sk-live"}

\* transcript_response.text: empty, whitespace only, padded text, text.
Transcripts ==
    << <<>>,
       <<" ", "\n", " ">>,
       <<" ", "f","e","v","e","r"," ","h","a","i">>,
       <<"b","u","k","h","a","a","r">> >>

FullNote ==
    JObj([presenting_complaints |-> JStr(<<"f","e","v","e","r">>),
          past_history |-> JStr(<<"n","o","n","e">>),
          investigations_ordered |-> JStr(<<"C","B","C">>),
          diagnosis |-> JStr(<<"f","l","u">>),
          treatment |-> JStr(<<"r","e","s","t">>),
          follow_up |-> JStr(<<"5"," ","d","a","y","s">>)])

\* A note without follow_up and treatment.
PartNote ==
    JObj([presenting_complaints |-> JStr(<<"f","e","v","e","r">>),
          past_history |-> JStr(<<"n","o","n","e">>),
          investigations_ordered |-> JStr(<<"C","B","C">>),
          diagnosis |-> JStr(<<"f","l","u">>)])

\* The six field names as JSON strings.
NoteNames == [i \in DOMAIN required_fields |-> JStr(KeyChars[required_fields[i]])]

OneQuestion == JList(<< JStr(<<"w","h","e","n","?">>) >>)

\* message.content of the generation call.
Payloads ==
    << \* 1, 2: not JSON
       Content(FALSE, PyNone, "Expecting value"),
       Content(FALSE, PyNone, "Unterminated string"),
       \* 3: {} - no note
       Content(TRUE, JObj(<<>>), ""),
       \* 4: {"questions": [...]} - no note
       Content(TRUE, JObj([questions |-> OneQuestion]), ""),
       \* 5: the note lacks two fields
       Content(TRUE, JObj([note |-> PartNote, questions |-> OneQuestion]), ""),
       \* 6: the note is {}
       Content(TRUE, JObj([note |-> JObj(<<>>)]), ""),
       \* 7: complete
       Content(TRUE, JObj([note |-> FullNote, questions |-> OneQuestion]), ""),
       \* 8: complete but for "questions"
       Content(TRUE, JObj([note |-> FullNote]), ""),
       \* 9: complete, with keys of its own for "error" and "transcript"
       Content(TRUE, JObj([note |-> FullNote, questions |-> JList(<<>>),
                           error |-> JStr(<<"u","n","s","u","r","e">>),
                           transcript |-> JStr(<<"m","a","d","e"," ","u","p">>)]), ""),
       \* 10: the note is null
       Content(TRUE, JObj([note |-> JNull, questions |-> OneQuestion]), ""),
       \* 11: the note is a string
       Content(TRUE, JObj([note |-> JStr(<<"f","e","v","e","r">>)]), ""),
       \* 12: the top-level value is a number
       Content(TRUE, JNum, ""),
       \* 13: the note is the list of the six field names
       Content(TRUE, JObj([note |-> JList(NoteNames), questions |-> OneQuestion]), "") >>

(***************************************************************************)
(* The state.                                                              *)
(*                                                                         *)
(* The server runs the handlers on one event loop: `loop` is the request   *)
(* whose handler is running (0: none).  A handler gives the loop up only   *)
(* at `await audio.read()` and when it ends; time.sleep and the OpenAI     *)
(* client's calls are synchronous and keep it.                             *)
(*                                                                         *)
(* The file system: fs[p] is the file at path p (0: none), named by the    *)
(* request whose open() created it; idata[i] is that file's content.  The  *)
(* upload of request r is the one chunk <<r>>.                             *)
(***************************************************************************)
VARIABLES
    apiKey,           \* settings.openai_api_key
    admit,            \* the requests that will arrive
    answers,          \* what the uploads and the collaborators may bring
    loop,
    fs, idata,
    pc,               \* where each request's handler is
    filename,         \* audio.filename
    wh, rh,           \* the file f (line 103) and audio_file (line 111) refer to
    created,          \* the request's open(.., "wb") succeeded
    sent,             \* the bytes audio_file held when the transcription ran
    attempt,          \* call_with_retries: attempt
    delays,           \* call_with_retries: the delays slept in this call
    fails,            \* call_with_retries: the failures caught in this call
    invocations,      \* call_with_retries: invocations of func in this call
    transcript_response,
    transcript_text,
    vattempt,         \* analyze_audio: attempt (line 212)
    response,         \* the generation call's message.content
    analysis,
    last_error,
    seen,             \* the payloads validated so far in the request
    outcome,          \* what the handler returns or raises
    sttCalls,         \* invocations of audio.transcriptions.create in the request
    llmCalls,         \* invocations of chat.completions.create in the request
    rmFailed,         \* os.remove raised
    result            \* what the client received

vars == <<apiKey, admit, answers, loop, fs, idata, pc, filename, wh, rh, created, sent,
          attempt, delays, fails, invocations, transcript_response,
          transcript_text, vattempt, response, analysis, last_error, seen,
          outcome, sttCalls, llmCalls, rmFailed, result>>

\* Groups for UNCHANGED.
envVars == <<apiKey, admit, answers>>
fileVars == <<fs, idata, wh, rh, created, sent>>
cwrVars == <<attempt, delays, fails, invocations>>
sttVars == <<transcript_response, transcript_text, sttCalls>>
llmVars == <<vattempt, response, analysis, last_error, seen, llmCalls>>

\* An outcome: kind "return" with doc, or kind "raise": HTTPException with
\* status and detail = prefix followed by str(cause).
Out(kind, status, prefix, cause, doc) ==
    [kind |-> kind, status |-> status, prefix |-> prefix, cause |-> cause,
     doc |-> doc]
NoOutcome == Out("none", 0, "", NoExc, PyNone)
Return(doc) == Out("return", 200, "", NoExc, doc)
Raise(status, prefix, cause) == Out("raise", status, prefix, cause, PyNone)

\* last_error: a prefix followed by str(cause); None.
LastError(prefix, cause) == [prefix |-> prefix, cause |-> cause]
NoLastError == LastError("", NoExc)

NoContent == Content(FALSE, PyNone, "")

\* The value of a text variable that is not bound yet.
Unbound == <<"unbound">>

\* The bytes the request uploads.
Upload(r) == <<r>>

\* A save that leaves the file as open() made it.
WriteAt0Nothing(old, data) == old

\* f.write(data) on a file just opened: the bytes go to offset 0.
WriteAt0(old, data) == data \o SubSeq(old, Len(data) + 1, Len(old))

\* The uploads' filenames and the collaborators' answers a run draws from:
\* indices of ErrMsgs, Transcripts and Payloads.
AllAnswers ==
    [names |-> Filenames, msgs |-> DOMAIN ErrMsgs, jitters |-> Jitters,
     transcripts |-> DOMAIN Transcripts, payloads |-> DOMAIN Payloads]

\* No request has arrived and no file is there.
Idle ==
    /\ loop = 0
    /\ fs = [p \in Paths |-> 0]
    /\ idata = [i \in Requests |-> <<>>]
    /\ pc = [r \in Requests |-> "idle"]
    /\ filename = [r \in Requests |-> <<>>]
    /\ wh = [r \in Requests |-> 0]
    /\ rh = [r \in Requests |-> 0]
    /\ created = [r \in Requests |-> FALSE]
    /\ sent = [r \in Requests |-> <<>>]
    /\ attempt = [r \in Requests |-> 0]
    /\ delays = [r \in Requests |-> <<>>]
    /\ fails = [r \in Requests |-> <<>>]
    /\ invocations = [r \in Requests |-> 0]
    /\ transcript_response = [r \in Requests |-> Unbound]
    /\ transcript_text = [r \in Requests |-> Unbound]
    /\ vattempt = [r \in Requests |-> 0]
    /\ response = [r \in Requests |-> NoContent]
    /\ analysis = [r \in Requests |-> PyNone]
    /\ last_error = [r \in Requests |-> NoLastError]
    /\ seen = [r \in Requests |-> <<>>]
    /\ outcome = [r \in Requests |-> NoOutcome]
    /\ sttCalls = [r \in Requests |-> 0]
    /\ llmCalls = [r \in Requests |-> 0]
    /\ rmFailed = [r \in Requests |-> FALSE]
    /\ result = [r \in Requests |-> NoOutcome]

\* One request, any credential, every answer.
Init ==
    /\ apiKey \in ApiKeys
    /\ admit = {1}
    /\ answers = AllAnswers
    /\ Idle

\* The handler of r leaves its try block with outcome o: the finally block
\* is next.
Leave(r, o) ==
    /\ outcome' = [outcome EXCEPT ![r] = o]
    /\ pc' = [pc EXCEPT ![r] = "finally"]

\* A mutant of CwrStart: the attempts used by the call before are not given
\* back.
CwrStartKeepAttempt(r) ==
    /\ UNCHANGED attempt
    /\ delays' = [delays EXCEPT ![r] = <<>>]
    /\ fails' = [fails EXCEPT ![r] = <<>>]
    /\ invocations' = [invocations EXCEPT ![r] = 0]

\* A call_with_retries starts.
CwrStart(r) ==
    /\ attempt' = [attempt EXCEPT ![r] = 0]
    /\ delays' = [delays EXCEPT ![r] = <<>>]
    /\ fails' = [fails EXCEPT ![r] = <<>>]
    /\ invocations' = [invocations EXCEPT ![r] = 0]

(***************************************************************************)
(* Lines 90-99: the request arrives; the credential check.                 *)
(***************************************************************************)
\* A mutant of KeyMissing: only the unset key is caught.
KeyMissingNoPlaceholder(key) == key = ""

\* Line 96.
KeyMissing(key) == key = "" \/ key = "your_api_key_here"

\* Lines 97-99.
FallbackResult == SetItem(get_hindi_mock_data, "error", KeyMissingError)

Begin(r) ==
    /\ r \in admit
    /\ loop = 0
    /\ pc[r] = "idle"
    /\ loop' = r
    /\ \E name \in answers.names : filename' = [filename EXCEPT ![r] = name]
    /\ IF KeyMissing(apiKey)
       THEN Leave(r, Return(FallbackResult))
       ELSE /\ pc' = [pc EXCEPT ![r] = "open_write"]
            /\ UNCHANGED outcome
    /\ UNCHANGED <<envVars, fileVars, cwrVars, sttVars, llmVars, rmFailed, result>>

(***************************************************************************)
(* Lines 101-107: save the upload.                                         *)
(***************************************************************************)
SaveFailed == Raise(500, "Failed to save audio file: ", Exc("OSError", "", <<>>, <<>>, 0, 0))

\* Line 103: open(temp_file_path, "wb") creates the file or truncates the
\* one that is there; or raises.
OpenWrite(r) ==
    /\ loop = r
    /\ pc[r] = "open_write"
    /\ LET p == TempFilePath(filename[r])
       IN  \/ /\ IF fs[p] = 0
                 THEN /\ fs' = [fs EXCEPT ![p] = r]
                      /\ idata' = [idata EXCEPT ![r] = <<>>]
                      /\ wh' = [wh EXCEPT ![r] = r]
                 ELSE /\ fs' = fs
                      /\ idata' = [idata EXCEPT ![fs[p]] = <<>>]
                      /\ wh' = [wh EXCEPT ![r] = fs[p]]
              /\ created' = [created EXCEPT ![r] = TRUE]
              /\ pc' = [pc EXCEPT ![r] = "await_read"]
              /\ UNCHANGED outcome
           \/ /\ Leave(r, SaveFailed)
              /\ UNCHANGED <<fs, idata, wh, created>>
    /\ UNCHANGED <<envVars, loop, filename, rh, sent, cwrVars, sttVars, llmVars,
                   rmFailed, result>>

\* Line 104: await audio.read() hands the loop back when the upload is
\* spooled to disk (the read runs in a thread pool) ...
Yield(r) ==
    /\ loop = r
    /\ pc[r] = "await_read"
    /\ loop' = 0
    /\ pc' = [pc EXCEPT ![r] = "suspended"]
    /\ UNCHANGED <<envVars, fileVars, filename, cwrVars, sttVars, llmVars,
                   outcome, rmFailed, result>>

\* ... and the handler goes on when the loop is free again.
Resume(r) ==
    /\ loop = 0
    /\ pc[r] = "suspended"
    /\ loop' = r
    /\ pc' = [pc EXCEPT ![r] = "write"]
    /\ UNCHANGED <<envVars, fileVars, filename, cwrVars, sttVars, llmVars,
                   outcome, rmFailed, result>>

\* Lines 104-105: content = await audio.read(); f.write(content); the with
\* block closes f.  An upload held in memory is read without giving the
\* loop up.
WriteContent(r) ==
    /\ loop = r
    /\ pc[r] \in {"await_read", "write"}
    /\ wh' = [wh EXCEPT ![r] = 0]
    /\ \/ /\ idata' = [idata EXCEPT ![wh[r]] = WriteAt0(idata[wh[r]], Upload(r))]
          /\ pc' = [pc EXCEPT ![r] = "open_read"]
          /\ UNCHANGED outcome
       \/ /\ Leave(r, SaveFailed)
          /\ UNCHANGED idata
    /\ UNCHANGED <<envVars, loop, fs, filename, rh, created, sent, cwrVars,
                   sttVars, llmVars, rmFailed, result>>

(***************************************************************************)
(* Lines 110-124: transcribe.                                              *)
(***************************************************************************)
TranscriptionFailed(e) == Raise(500, "Transcription failed: ", e)

\* Line 121.
EmptyTranscript == Exc("HTTPException", "Transcription returned empty text", <<>>, <<>>, 0, 400)

\* Line 111: open(temp_file_path, "rb"); a missing file is caught at line 123.
OpenRead(r) ==
    /\ loop = r
    /\ pc[r] = "open_read"
    /\ LET p == TempFilePath(filename[r])
       IN  IF fs[p] = 0
           THEN /\ Leave(r, TranscriptionFailed(
                               Exc("FileNotFoundError", "", <<>>, <<>>, 0, 0)))
                /\ UNCHANGED <<rh, cwrVars>>
           ELSE /\ rh' = [rh EXCEPT ![r] = fs[p]]
                /\ pc' = [pc EXCEPT ![r] = "stt_call"]
                /\ CwrStart(r)
                /\ UNCHANGED outcome
    /\ UNCHANGED <<envVars, loop, fs, idata, wh, created, sent, filename, sttVars,
                   llmVars, rmFailed, result>>

\* Lines 112-117: one iteration of call_with_retries around
\* client.audio.transcriptions.create.  The call answers with a text or
\* fails; a failure that is not retried is caught at line 123.
TranscribeCall(r) ==
    /\ loop = r
    /\ pc[r] = "stt_call"
    /\ sttCalls' = [sttCalls EXCEPT ![r] = @ + 1]
    /\ invocations' = [invocations EXCEPT ![r] = @ + 1]
    /\ sent' = [sent EXCEPT ![r] = idata[rh[r]]]
    /\ \/ \E t \in answers.transcripts :
            /\ CwrIteration(attempt[r], FALSE, NoExc, 0).next = "return"
            /\ transcript_response' = [transcript_response EXCEPT ![r] = Transcripts[t]]
            /\ rh' = [rh EXCEPT ![r] = 0]
            /\ pc' = [pc EXCEPT ![r] = "stt_ret"]
            /\ UNCHANGED <<delays, fails, outcome>>
       \/ \E m \in answers.msgs, j \in answers.jitters :
            LET e == ApiError(m, invocations[r] + 1)
                it == CwrIteration(attempt[r], TRUE, e, j)
            IN  /\ fails' = [fails EXCEPT ![r] = Append(@, e)]
                /\ IF it.next = "sleep"
                   THEN /\ delays' = [delays EXCEPT ![r] = Append(@, it.delay)]
                        /\ pc' = [pc EXCEPT ![r] = "stt_sleep"]
                        /\ UNCHANGED <<rh, outcome>>
                   ELSE /\ rh' = [rh EXCEPT ![r] = 0]
                        /\ Leave(r, TranscriptionFailed(e))
                        /\ UNCHANGED delays
                /\ UNCHANGED transcript_response
    /\ UNCHANGED <<envVars, loop, fs, idata, wh, created, filename, attempt,
                   transcript_text, llmVars, rmFailed, result>>

\* Line 80: time.sleep(delay) is over; the loop of call_with_retries goes
\* round.  The sleep is synchronous: the event loop stays with r.
Wake(r) ==
    /\ loop = r
    /\ pc[r] \in {"stt_sleep", "llm_sleep"}
    /\ attempt' = [attempt EXCEPT ![r] = @ + 1]
    /\ pc' = [pc EXCEPT ![r] = IF pc[r] = "stt_sleep" THEN "stt_call" ELSE "llm_call"]
    /\ UNCHANGED <<envVars, loop, fileVars, filename, delays, fails, invocations,
                   sttVars, llmVars, outcome, rmFailed, result>>

\* A mutant of IsEmptyText: whitespace counts as text.
IsEmptyTextNoStrip(text) == text = <<>>

\* Line 120: not transcript_text or not transcript_text.strip()
IsEmptyText(text) == text = <<>> \/ Strip(text) = <<>>

\* Lines 121-124: the HTTPException raised at line 121 is raised inside the
\* try block of line 110, and line 123 catches every Exception.
EmptyTranscriptOutcome == TranscriptionFailed(EmptyTranscript)

\* Lines 118-124: the transcription returned.
CheckTranscript(r) ==
    /\ loop = r
    /\ pc[r] = "stt_ret"
    /\ transcript_text' = [transcript_text EXCEPT ![r] = transcript_response[r]]
    /\ IF IsEmptyText(transcript_response[r])
       THEN /\ Leave(r, EmptyTranscriptOutcome)
            /\ UNCHANGED <<cwrVars, vattempt, analysis, last_error>>
       ELSE /\ pc' = [pc EXCEPT ![r] = "llm_call"]
            /\ vattempt' = [vattempt EXCEPT ![r] = 0]
            /\ analysis' = [analysis EXCEPT ![r] = PyNone]
            /\ last_error' = [last_error EXCEPT ![r] = NoLastError]
            /\ CwrStart(r)
            /\ UNCHANGED outcome
    /\ UNCHANGED <<envVars, loop, fileVars, filename, transcript_response, sttCalls,
                   response, seen, llmCalls, rmFailed, result>>

(***************************************************************************)
(* Lines 208-269: extract.                                                 *)
(***************************************************************************)
\* A mutant of LlmCallFailed: the request degrades to the fallback document.
LlmCallFailedFallback(e) == Return(FallbackResult)

\* Lines 261-263: a failure that call_with_retries let through.
LlmCallFailed(e) == Raise(500, "LLM call failed: ", e)

\* Lines 214-223 and 261-263: one iteration of call_with_retries around
\* client.chat.completions.create.  A failure that is not retried is
\* caught at line 261.
ExtractCall(r) ==
    /\ loop = r
    /\ pc[r] = "llm_call"
    /\ llmCalls' = [llmCalls EXCEPT ![r] = @ + 1]
    /\ invocations' = [invocations EXCEPT ![r] = @ + 1]
    /\ \/ \E c \in answers.payloads :
            /\ CwrIteration(attempt[r], FALSE, NoExc, 0).next = "return"
            /\ response' = [response EXCEPT ![r] = Payloads[c]]
            /\ pc' = [pc EXCEPT ![r] = "llm_ret"]
            /\ UNCHANGED <<delays, fails, last_error, outcome>>
       \/ \E m \in answers.msgs, j \in answers.jitters :
            LET e == ApiError(m, invocations[r] + 1)
                it == CwrIteration(attempt[r], TRUE, e, j)
            IN  /\ fails' = [fails EXCEPT ![r] = Append(@, e)]
                /\ IF it.next = "sleep"
                   THEN /\ delays' = [delays EXCEPT ![r] = Append(@, it.delay)]
                        /\ pc' = [pc EXCEPT ![r] = "llm_sleep"]
                        /\ UNCHANGED <<last_error, outcome>>
                   ELSE /\ last_error' = [last_error EXCEPT ![r] =
                                              LastError("LLM call failed: ", e)]
                        /\ Leave(r, LlmCallFailed(e))
                        /\ UNCHANGED delays
                /\ UNCHANGED response
    /\ UNCHANGED <<envVars, loop, fileVars, filename, attempt, sttVars, vattempt,
                   analysis, seen, rmFailed, result>>

\* A mutant of ExtractDecision: the first validation message is kept.
ExtractDecisionFirstError(vatt, v, le) ==
    LET Keep(new) == IF le = NoLastError THEN new ELSE le
    IN  CASE v.res = "ok" -> [next |-> "break", last_error |-> le]
          [] v.res = "decode" ->
                [next |-> IF vatt = 0 THEN "continue" ELSE "raise",
                 last_error |-> Keep(LastError("Invalid JSON from LLM: ", v.exc))]
          [] v.res = "value" ->
                [next |-> IF vatt = 0 THEN "continue" ELSE "raise",
                 last_error |-> Keep(LastError("Invalid response structure: ", v.exc))]
          [] OTHER -> [next |-> "raise", last_error |-> LastError("LLM call failed: ", v.exc)]

\* Lines 243-263: what follows the validation of a payload on validation
\* attempt vatt; le is last_error.
ExtractDecision(vatt, v, le) ==
    CASE v.res = "ok" -> [next |-> "break", last_error |-> le]
      [] v.res = "decode" ->
            [next |-> IF vatt = 0 THEN "continue" ELSE "raise",
             last_error |-> LastError("Invalid JSON from LLM: ", v.exc)]
      [] v.res = "value" ->
            [next |-> IF vatt = 0 THEN "continue" ELSE "raise",
             last_error |-> LastError("Invalid response structure: ", v.exc)]
      [] OTHER -> [next |-> "raise", last_error |-> LastError("LLM call failed: ", v.exc)]

\* A mutant of AfterLoop: the payload's own transcript is left in place.
AfterLoopKeepsTranscript(a, le, text) ==
    IF ~Truthy(a)
    THEN Raise(500, "Failed to generate valid analysis: ", le.cause)
    ELSE IF a.t # "obj"
    THEN Raise(500, "Unexpected error: ", Exc("TypeError", "", <<>>, <<>>, 0, 0))
    ELSE IF "transcript" \in DOMAIN a.m THEN Return(a)
    ELSE Return(SetItem(a, "transcript", JStr(text)))

\* Lines 265-269 (and 274-276 for a failure of line 268): the loop is over
\* with analysis = a and last_error = le.
AfterLoop(a, le, text) ==
    IF ~Truthy(a)
    THEN Raise(500, "Failed to generate valid analysis: ", le.cause)
    ELSE IF a.t # "obj"
    THEN Raise(500, "Unexpected error: ", Exc("TypeError", "", <<>>, <<>>, 0, 0))
    ELSE Return(SetItem(a, "transcript", JStr(text)))

\* Lines 226-269: the generation call returned.
ValidatePayload(r) ==
    /\ loop = r
    /\ pc[r] = "llm_ret"
    /\ LET v == Validate(response[r])
           d == ExtractDecision(vattempt[r], v, last_error[r])
           a == IF v.res = "decode" THEN analysis[r] ELSE v.analysis
           again == d.next = "continue" /\ vattempt[r] + 1 < validation_attempts
       IN  /\ last_error' = [last_error EXCEPT ![r] = d.last_error]
           /\ seen' = [seen EXCEPT ![r] = Append(@, response[r])]
           /\ CASE d.next = "raise" ->
                     /\ analysis' = [analysis EXCEPT ![r] = a]
                     /\ Leave(r, Raise(500, d.last_error.prefix, d.last_error.cause))
                     /\ UNCHANGED <<vattempt, cwrVars>>
                [] again ->
                     /\ analysis' = [analysis EXCEPT ![r] = a]
                     /\ vattempt' = [vattempt EXCEPT ![r] = @ + 1]
                     /\ pc' = [pc EXCEPT ![r] = "llm_call"]
                     /\ CwrStart(r)
                     /\ UNCHANGED outcome
                [] OTHER ->
                     LET o == AfterLoop(a, d.last_error, transcript_text[r])
                     IN  /\ analysis' = [analysis EXCEPT ![r] =
                                            IF o.kind = "return" THEN o.doc ELSE a]
                         /\ Leave(r, o)
                         /\ UNCHANGED <<vattempt, cwrVars>>
    /\ UNCHANGED <<envVars, loop, fileVars, filename, sttVars, response, llmCalls,
                   rmFailed, result>>

(***************************************************************************)
(* Lines 277-283: the finally block; then the response goes out.           *)
(***************************************************************************)
\* A mutant of CleanupRemoves: the artifact is removed on success only.
CleanupRemovesOnReturn(exists, o) == exists /\ o.kind = "return"

\* Lines 277-281: the block runs however the try block was left (o), and
\* calls os.remove when the path exists.
CleanupRemoves(exists, o) == exists

\* A mutant of AfterCleanup: a failed os.remove takes the place of the
\* handler's outcome.
AfterCleanupEscalates(o, removeFailed) ==
    IF removeFailed
    THEN Raise(500, "Unexpected error: ", Exc("OSError", "", <<>>, <<>>, 0, 0))
    ELSE o

\* Lines 280-283: a failure of os.remove is caught and printed; the handler
\* ends as it left the try block (o).
AfterCleanup(o, removeFailed) == o

Cleanup(r) ==
    /\ loop = r
    /\ pc[r] = "finally"
    /\ LET p == TempFilePath(filename[r])
       IN  IF CleanupRemoves(fs[p] # 0, outcome[r])
           THEN \/ /\ fs' = [fs EXCEPT ![p] = 0]
                   /\ outcome' = [outcome EXCEPT ![r] = AfterCleanup(@, FALSE)]
                   /\ UNCHANGED rmFailed
                \/ /\ rmFailed' = [rmFailed EXCEPT ![r] = TRUE]
                   /\ outcome' = [outcome EXCEPT ![r] = AfterCleanup(@, TRUE)]
                   /\ UNCHANGED fs
           ELSE /\ outcome' = [outcome EXCEPT ![r] = AfterCleanup(@, FALSE)]
                /\ UNCHANGED <<fs, rmFailed>>
    /\ pc' = [pc EXCEPT ![r] = "respond"]
    /\ UNCHANGED <<envVars, loop, idata, wh, rh, created, sent, filename, cwrVars,
                   sttVars, llmVars, result>>

\* Line 84: what the client gets for the outcome o of the handler.  A
\* returned value that the response model rejects is answered with a 500.
Deliver(o) ==
    IF o.kind # "return" THEN o
    ELSE IF ClinicalDocumentation(o.doc) THEN Return(ResponseOf(o.doc))
    ELSE Raise(500, "Internal Server Error",
               Exc("ResponseValidationError", "", <<>>, <<>>, 0, 0))

\* The handler is over: the client gets the outcome, the handler's frame
\* is gone and the loop is free.
Respond(r) ==
    /\ loop = r
    /\ pc[r] = "respond"
    /\ loop' = 0
    /\ pc' = [pc EXCEPT ![r] = "done"]
    /\ result' = [result EXCEPT ![r] = Deliver(outcome[r])]
    /\ outcome' = [outcome EXCEPT ![r] = NoOutcome]
    /\ filename' = [filename EXCEPT ![r] = <<>>]
    /\ created' = [created EXCEPT ![r] = FALSE]
    /\ sent' = [sent EXCEPT ![r] = <<>>]
    /\ CwrStart(r)
    /\ transcript_response' = [transcript_response EXCEPT ![r] = Unbound]
    /\ transcript_text' = [transcript_text EXCEPT ![r] = Unbound]
    /\ vattempt' = [vattempt EXCEPT ![r] = 0]
    /\ response' = [response EXCEPT ![r] = NoContent]
    /\ analysis' = [analysis EXCEPT ![r] = PyNone]
    /\ last_error' = [last_error EXCEPT ![r] = NoLastError]
    /\ seen' = [seen EXCEPT ![r] = <<>>]
    /\ sttCalls' = [sttCalls EXCEPT ![r] = 0]
    /\ llmCalls' = [llmCalls EXCEPT ![r] = 0]
    /\ rmFailed' = [rmFailed EXCEPT ![r] = FALSE]
    /\ UNCHANGED <<envVars, fs, idata, wh, rh>>

Next ==
    \E r \in Requests :
        \/ Begin(r)
        \/ OpenWrite(r)
        \/ Yield(r)
        \/ Resume(r)
        \/ WriteContent(r)
        \/ OpenRead(r)
        \/ TranscribeCall(r)
        \/ Wake(r)
        \/ CheckTranscript(r)
        \/ ExtractCall(r)
        \/ ValidatePayload(r)
        \/ Cleanup(r)
        \/ Respond(r)

Spec == Init /\ [][Next]_vars

\* Every request may arrive, with a real credential; few answers: the two
\* filenames that give one path, a transient and a permanent failure, an
\* empty and a real transcript, a malformed and a complete payload.
FewAnswers ==
    [names |-> { <<"v","i","s","i","t",".","w","a","v">>, <<"v","i","s","i","t">> },
     msgs |-> {1, 4}, jitters |-> {0}, transcripts |-> {1, 4}, payloads |-> {1, 7}]

InitConc ==
    /\ apiKey = "sk-live"
    /\ admit = Requests
    /\ answers = FewAnswers
    /\ Idle

SpecConc == InitConc /\ [][Next]_vars

\* One request and a few answers of each kind: a transient and a permanent
\* failure, an empty and a full transcript, payloads that fail to parse,
\* fail validation, pass, and make the validation itself fail.
TermAnswers ==
    [names |-> { <<"v","i","s","i","t">> },
     msgs |-> {1, 4}, jitters |-> {0}, transcripts |-> {1, 4},
     payloads |-> {1, 5, 7, 10}]

InitTerm == /\ apiKey \in ApiKeys /\ admit = {1} /\ answers = TermAnswers /\ Idle

\* The steps of the handler of r once the request has arrived.
Handler(r) ==
    \/ OpenWrite(r)
    \/ Yield(r)
    \/ Resume(r)
    \/ WriteContent(r)
    \/ OpenRead(r)
    \/ TranscribeCall(r)
    \/ Wake(r)
    \/ CheckTranscript(r)
    \/ ExtractCall(r)
    \/ ValidatePayload(r)
    \/ Cleanup(r)
    \/ Respond(r)

\* Every external call returns or fails, every sleep ends and the event
\* loop runs what is ready: a handler that can take a step takes one.
SpecTerm == InitTerm /\ [][Next]_vars /\ \A r \in Requests : WF_vars(Handler(r))

(***************************************************************************)
(* Properties.                                                             *)
(*                                                                         *)
(* A handler has finished when its finally block is done (pc "respond");   *)
(* its locals are still there to be looked at.  What the properties        *)
(* expect of the collaborators' answers is written out here, apart from    *)
(* the operators that model the code.                                      *)
(***************************************************************************)
Finished(r) == pc[r] = "respond"
Leaving(r) == pc[r] \in {"finally", "respond"}

\* The messages of ErrMsgs that hold one of 'rate limit', 'quota',
\* 'server error', 'connection', 'timeout' in lower case, and the others.
TransientMsgs == {RateLimitMsg, ConnectionMsg}
PermanentMsgs == {TimedOutMsg, AuthMsg}

\* A jitter in [0, 0.5) time units, in ticks.
IsJitter(j) == j >= 0 /\ 2 * j < TicksPerUnit

\* C1: once a request has finished, on whatever path, and os.remove did not
\* fail, no file is left at the request's temp_<filename>[.wav].
C1_ArtifactRemoved ==
    \A r \in Requests :
        (Finished(r) /\ ~rmFailed[r]) => fs[TempFilePath(filename[r])] = 0

\* A request that wrote its artifact and failed in extraction has finished,
\* and the artifact is gone.
C1_Witness ==
    \E r \in Requests :
        /\ Finished(r) /\ created[r] /\ ~rmFailed[r]
        /\ outcome[r].kind = "raise"
        /\ outcome[r].prefix = "Invalid response structure: "
        /\ fs[TempFilePath(filename[r])] = 0

\* C2: when the operation failed twice with a transient failure and then
\* returned, call_with_retries has invoked it exactly 3 times and slept
\* exactly twice, first 1 * 2^0 units + jitter and then 1 * 2^1 units +
\* jitter, the second delay no shorter than the first.
C2_TwoTransientThenSuccess ==
    \A r \in Requests :
        ( /\ pc[r] \in {"stt_ret", "llm_ret"}
          /\ Len(fails[r]) = 2
          /\ fails[r][1].msg \in TransientMsgs
          /\ fails[r][2].msg \in TransientMsgs )
        => /\ invocations[r] = 3
           /\ attempt[r] = 2
           /\ Len(delays[r]) = 2
           /\ IsJitter(delays[r][1] - 1 * TicksPerUnit)
           /\ IsJitter(delays[r][2] - 2 * TicksPerUnit)
           /\ delays[r][2] >= delays[r][1]

\* The transcription returned on its third invocation after a rate limit
\* and a connection error, the first delay with the largest jitter.
C2_Witness ==
    \E r \in Requests :
        /\ pc[r] = "stt_ret"
        /\ invocations[r] = 3
        /\ Len(fails[r]) = 2
        /\ fails[r][1].msg = RateLimitMsg
        /\ fails[r][2].msg = ConnectionMsg
        /\ delays[r][1] = 1 * TicksPerUnit + (JitterSteps - 1)
        /\ delays[r][2] = 2 * TicksPerUnit

\* C3: a failure that is not transient-classified is the last thing its
\* call_with_retries does: the call raises that very failure, without a
\* delay after it and without another invocation, on whichever attempt it
\* came; on the first attempt that is one invocation and no delay at all.
C3_PermanentFailurePropagates ==
    \A r \in Requests :
        \A i \in DOMAIN fails[r] :
            fails[r][i].msg \in PermanentMsgs
            => /\ i = Len(fails[r])
               /\ invocations[r] = i
               /\ Len(delays[r]) = i - 1
               /\ Leaving(r)
               /\ outcome[r].kind = "raise"
               /\ outcome[r].cause = fails[r][i]

\* A timeout message ("Request timed out.") on the second invocation of the
\* generation call ended the call after one delay.
C3_Witness ==
    \E r \in Requests :
        /\ Leaving(r)
        /\ llmCalls[r] = 2
        /\ Len(fails[r]) = 2
        /\ fails[r][2].msg = TimedOutMsg
        /\ Len(delays[r]) = 1
        /\ outcome[r].cause = fails[r][2]

\* C4: call_with_retries invokes the operation at most 3 times; when all 3
\* invocations failed with transient failures, it raises the failure of the
\* third invocation, not an earlier one, and slept twice only.
C4_ExhaustionRaisesLast ==
    \A r \in Requests :
        /\ invocations[r] <= 3
        /\ sttCalls[r] <= 3
        /\ ( /\ Len(fails[r]) = 3
             /\ \A i \in 1..3 : fails[r][i].msg \in TransientMsgs )
           => /\ Leaving(r)
              /\ outcome[r].kind = "raise"
              /\ outcome[r].cause = fails[r][3]
              /\ outcome[r].cause.inv = 3
              /\ Len(delays[r]) = 2

\* Three transient failures of the transcription, the last with another
\* message than the first two, ended the request with the last one.
C4_Witness ==
    \E r \in Requests :
        /\ Leaving(r)
        /\ sttCalls[r] = 3
        /\ Len(fails[r]) = 3
        /\ fails[r][1].msg = RateLimitMsg
        /\ fails[r][2].msg = RateLimitMsg
        /\ fails[r][3].msg = ConnectionMsg
        /\ outcome[r].cause.msg = ConnectionMsg

\* The payloads of the table that are malformed in one of the three ways:
\* not JSON (1, 2), without "note" (3, 4), a note without some of the six
\* fields (5, 6); and the detail each must give: prefix, exception, message,
\* listed fields.
MalformedPayloads == { Payloads[k] : k \in 1..6 }

ExpectedDetail ==
    << <<"Invalid JSON from LLM: ", "JSONDecodeError", "Expecting value", <<>> >>,
       <<"Invalid JSON from LLM: ", "JSONDecodeError", "Unterminated string", <<>> >>,
       <<"Invalid response structure: ", "ValueError", "Response missing 'note' field", <<>> >>,
       <<"Invalid response structure: ", "ValueError", "Response missing 'note' field", <<>> >>,
       <<"Invalid response structure: ", "ValueError", "Note missing required fields: ",
         <<"treatment", "follow_up">> >>,
       <<"Invalid response structure: ", "ValueError", "Note missing required fields: ",
         <<"presenting_complaints", "past_history", "investigations_ordered",
           "diagnosis", "treatment", "follow_up">> >> >>

HasDetailOf(o, c) ==
    \E k \in 1..6 :
        /\ Payloads[k] = c
        /\ o.prefix = ExpectedDetail[k][1]
        /\ o.cause.type = ExpectedDetail[k][2]
        /\ o.cause.text = ExpectedDetail[k][3]
        /\ o.cause.fields = ExpectedDetail[k][4]

ValidationPrefixes == {"Invalid JSON from LLM: ", "Invalid response structure: "}

\* C5: two malformed payloads in a row end extraction with status 500 and
\* the validation message of the second payload; a first malformed payload
\* alone never does; no third payload is ever validated.
C5_TwoMalformedPayloads ==
    \A r \in Requests :
        /\ Len(seen[r]) <= 2
        /\ vattempt[r] <= 1
        /\ ( /\ Len(seen[r]) = 2
             /\ seen[r][1] \in MalformedPayloads
             /\ seen[r][2] \in MalformedPayloads )
           => /\ Leaving(r)
              /\ vattempt[r] = 1
              /\ outcome[r].kind = "raise"
              /\ outcome[r].status = 500
              /\ HasDetailOf(outcome[r], seen[r][2])
        /\ ( /\ Len(seen[r]) = 1
             /\ seen[r][1] \in MalformedPayloads
             /\ Leaving(r) )
           => outcome[r].prefix \notin ValidationPrefixes

\* Text that is not JSON, then a note without treatment and follow_up: the
\* request fails with the message about the two fields.
C5_Witness ==
    \E r \in Requests :
        /\ Leaving(r)
        /\ seen[r] = <<Payloads[1], Payloads[5]>>
        /\ outcome[r].prefix = "Invalid response structure: "
        /\ outcome[r].cause.fields = <<"treatment", "follow_up">>

\* C6: a payload with a complete note and no "questions" key is accepted
\* on the attempt that received it: nothing is validated after it, and the
\* request returns the note with questions = [].
C6_MissingQuestionsDefault ==
    \A r \in Requests :
        \A i \in DOMAIN seen[r] :
            seen[r][i] = Payloads[8]
            => /\ i = Len(seen[r])
               /\ Leaving(r)
               /\ outcome[r].kind = "return"
               /\ outcome[r].doc.m["note"] = FullNote
               /\ outcome[r].doc.m["questions"] = JList(<<>>)

\* The first payload of a request was the one without "questions", and the
\* request has returned.
C6_Witness ==
    \E r \in Requests :
        /\ Finished(r)
        /\ seen[r] = <<Payloads[8]>>
        /\ vattempt[r] = 0
        /\ llmCalls[r] = 1
        /\ outcome[r].kind = "return"

\* The texts of Transcripts that are empty or whitespace only.
EmptyTexts == { <<>>, <<" ", "\n", " ">> }

\* C7: once the transcription call has returned empty or all-whitespace
\* text, the request fails; the generation call is never invoked in it and
\* the transcription call is not invoked again.
C7_EmptyTranscriptStops ==
    \A r \in Requests :
        transcript_response[r] \in EmptyTexts
        => /\ pc[r] \in {"stt_ret", "finally", "respond"}
           /\ llmCalls[r] = 0
           /\ sttCalls[r] = Len(fails[r]) + 1
           /\ invocations[r] = sttCalls[r]
           /\ Leaving(r) => outcome[r].kind = "raise"

\* The transcription returned whitespace on its second invocation, and the
\* request has failed.
C7_Witness ==
    \E r \in Requests :
        /\ Finished(r)
        /\ transcript_response[r] = <<" ", "\n", " ">>
        /\ sttCalls[r] = 2
        /\ llmCalls[r] = 0
        /\ outcome[r].kind = "raise"

\* C8: an empty or whitespace-only transcription result leaves the handler
\* as the empty-transcript failure, status 400, and not as the failure kind
\* of the transcription call ("Transcription failed:", status 500).
C8_EmptyTranscriptIs400 ==
    \A r \in Requests :
        (Leaving(r) /\ transcript_response[r] \in EmptyTexts)
        => /\ outcome[r].status = 400
           /\ outcome[r].prefix # "Transcription failed: "

\* C9: with the credential unset or the placeholder, the request returns
\* the fallback document with the error about the missing credential; no
\* collaborator is called and no artifact is written.
C9_MissingCredentialFallback ==
    apiKey \in {"", "your_api_key_here"}
    => \A r \in Requests :
        /\ sttCalls[r] = 0
        /\ llmCalls[r] = 0
        /\ ~created[r]
        /\ \A p \in Paths : fs[p] = 0
        /\ pc[r] \in {"idle", "finally", "respond", "done"}
        /\ LET o == IF pc[r] = "done" THEN result[r] ELSE outcome[r]
           IN  pc[r] # "idle"
               => /\ o.kind = "return"
                  /\ \A k \in {"note", "questions", "transcript"} :
                        o.doc.m[k] = get_hindi_mock_data.m[k]
                  /\ DOMAIN o.doc.m = {"note", "questions", "transcript", "error"}
                  /\ ErrorOf(o.doc) # JNull
                  /\ ErrorOf(o.doc) = KeyMissingError

\* The key is the placeholder and the client has the fallback document.
C9_Witness ==
    \E r \in Requests :
        /\ apiKey = "your_api_key_here"
        /\ pc[r] = "done"
        /\ result[r].kind = "return"
        /\ ErrorOf(result[r].doc) # JNull

\* C10: a returned document has a non-null error only on the fallback path:
\* after a generation call the error is null, and a document with an error
\* is the fallback document.
C10_ErrorOnlyOnFallback ==
    \A r \in Requests :
        (Leaving(r) /\ outcome[r].kind = "return")
        => /\ llmCalls[r] > 0 => ErrorOf(outcome[r].doc) = JNull
           /\ ErrorOf(outcome[r].doc) # JNull => outcome[r].doc = FallbackResult

\* The artifact of r is in use: r has opened it for writing and its
\* finally block has not run.
ArtifactInUse(r) ==
    /\ created[r]
    /\ pc[r] \in {"await_read", "suspended", "write", "open_read", "stt_call",
                  "stt_sleep", "stt_ret", "llm_call", "llm_sleep", "llm_ret",
                  "finally"}

\* r has written its upload and not yet left the try block.
ArtifactWritten(r) ==
    pc[r] \in {"open_read", "stt_call", "stt_sleep", "stt_ret", "llm_call",
               "llm_sleep", "llm_ret"}

\* C11: requests in flight together share nothing: no two of them hold the
\* same file open for writing, the artifact of a request stays in place
\* with the request's own bytes until the request itself cleans up, and
\* the transcription of a request is handed the bytes of its own upload.
C11_NoSharedArtifact ==
    \A r \in Requests :
        /\ \A q \in Requests \ {r} : wh[r] # 0 => wh[q] # wh[r]
        /\ ArtifactInUse(r) => fs[TempFilePath(filename[r])] # 0
        /\ ArtifactWritten(r) =>
              /\ fs[TempFilePath(filename[r])] # 0
              /\ idata[fs[TempFilePath(filename[r])]] = Upload(r)
        /\ sttCalls[r] > 0 => sent[r] = Upload(r)

\* C12: while a request sleeps between two attempts of call_with_retries,
\* any other request can take its next step: one that has not started can
\* start, one that waits for its upload can go on.
C12_SleepBlocksOnlySleeper ==
    \A r \in Requests :
        pc[r] \in {"stt_sleep", "llm_sleep"}
        => \A q \in Requests \ {r} :
              /\ (q \in admit /\ pc[q] = "idle") => ENABLED Begin(q)
              /\ pc[q] = "suspended" => ENABLED Resume(q)

\* The stage a handler is in: 0 not arrived, 1 START (saving), 2 SAVED
\* (transcribing), 3 TRANSCRIBED (extracting), 4 leaving with a result or a
\* failure, 5 answered.
StageRank(where) ==
    CASE where = "idle" -> 0
      [] where \in {"open_write", "await_read", "suspended", "write"} -> 1
      [] where \in {"open_read", "stt_call", "stt_sleep", "stt_ret"} -> 2
      [] where \in {"llm_call", "llm_sleep", "llm_ret"} -> 3
      [] where \in {"finally", "respond"} -> 4
      [] OTHER -> 5

\* C13: within a request the stages only go forward; the transcription is
\* invoked only in the SAVED stage, with the artifact written; the
\* generation call is invoked only in the TRANSCRIBED stage, with the
\* non-empty text the transcription returned; and once the handler is
\* leaving, with a result or a failure, no collaborator is called again.
C13_StageOrder ==
    [][ \A r \in Requests :
          /\ StageRank(pc'[r]) >= StageRank(pc[r])
          /\ sttCalls'[r] > sttCalls[r] =>
                /\ StageRank(pc[r]) = 2
                /\ created[r]
                /\ rh[r] # 0
                /\ idata[rh[r]] = Upload(r)
          /\ llmCalls'[r] > llmCalls[r] =>
                /\ StageRank(pc[r]) = 3
                /\ sttCalls[r] > 0
                /\ transcript_text[r] = transcript_response[r]
                /\ transcript_text[r] # Unbound
                /\ transcript_text[r] \notin EmptyTexts
          /\ StageRank(pc[r]) = 4 =>
                /\ sttCalls'[r] <= sttCalls[r]
                /\ llmCalls'[r] <= llmCalls[r] ]_vars

\* A request went through every stage, with a retry in each call, and is
\* about to return its document.
C13_Witness ==
    \E r \in Requests :
        /\ Finished(r)
        /\ outcome[r].kind = "return"
        /\ sttCalls[r] = 2
        /\ llmCalls[r] = 2
        /\ Len(seen[r]) = 1

\* Payloads that pass the validation of lines 229-237 with a note object.
ValidPayloads == { Payloads[7], Payloads[8], Payloads[9] }

\* C14: in the extraction stage the transient failures call_with_retries
\* absorbs use up no validation attempt: the validation attempts used are the
\* payloads received, each validation attempt starts call_with_retries anew
\* with 3 invocations to spend, of which at most 2 fail and are absorbed, and
\* a malformed payload followed by a valid one succeeds however many
\* transient failures were absorbed before either.
C14_IndependentTiers ==
    \A r \in Requests :
        /\ pc[r] \in {"llm_call", "llm_sleep", "llm_ret"} =>
              /\ vattempt[r] = Len(seen[r])
              /\ vattempt[r] < validation_attempts
              /\ invocations[r] <= max_retries
              /\ llmCalls[r] <= vattempt[r] * max_retries + invocations[r]
              /\ \A i \in 1..Len(fails[r]) : fails[r][i].msg \in TransientMsgs
        /\ pc[r] = "llm_call" =>
              /\ attempt[r] = Len(fails[r])
              /\ invocations[r] = Len(fails[r])
              /\ Len(fails[r]) <= max_retries - 1
        /\ pc[r] = "llm_sleep" =>
              /\ attempt[r] + 1 = Len(fails[r])
              /\ Len(fails[r]) <= max_retries - 1
        /\ ( /\ Leaving(r)
             /\ Len(seen[r]) = 2
             /\ seen[r][1] \in MalformedPayloads
             /\ seen[r][2] \in ValidPayloads ) => outcome[r].kind = "return"

\* Two transient failures, a malformed payload, two more transient failures
\* and a valid payload: six invocations, and the request succeeds.
C14_Witness ==
    \E r \in Requests :
        /\ Finished(r)
        /\ llmCalls[r] = 2 * max_retries
        /\ Len(seen[r]) = 2
        /\ seen[r][1] \in MalformedPayloads
        /\ seen[r][2] \in ValidPayloads
        /\ outcome[r].kind = "return"

\* Payloads that parse as JSON and whose note, or whose top-level value, is
\* not an object.
NonObjectPayloads == { Payloads[10], Payloads[11], Payloads[12] }

\* C15: a payload that parses and whose note (or top-level value) is not
\* an object is handled as a failed structural validation: received on the
\* first validation attempt, the handler does not leave on it but calls the
\* extraction once more, and when the second payload is of that kind too the
\* request fails with the message of the structural validation.
C15_NonObjectNoteRetried ==
    \A r \in Requests :
        ( /\ Leaving(r)
          /\ seen[r] # <<>>
          /\ seen[r][1] \in NonObjectPayloads
          /\ invocations[r] > Len(fails[r]) )
        => /\ Len(seen[r]) = 2
           /\ seen[r][2] \in NonObjectPayloads =>
                 /\ outcome[r].kind = "raise"
                 /\ outcome[r].status = 500
                 /\ outcome[r].prefix = "Invalid response structure: "

\* C16: the finally block hands on the outcome the handler left the try
\* block with, whether os.remove succeeded, failed or was not called, and
\* what the caller receives is the response for that outcome: the result
\* on success, the status and detail of the primary error on failure.
C16_DeleteFailureNotEscalated ==
    [][ \A r \in Requests :
          /\ (pc[r] = "finally" /\ pc'[r] = "respond") =>
                /\ outcome[r].kind \in {"return", "raise"}
                /\ outcome'[r] = outcome[r]
          /\ (pc[r] = "respond" /\ pc'[r] = "done") =>
                /\ result'[r] = Deliver(outcome[r])
                /\ outcome[r].kind = "raise" => result'[r] = outcome[r] ]_vars

\* The transcription failed, the delete failed too, and the handler is about
\* to answer with the transcription's failure.
C16_Witness ==
    \E r \in Requests :
        /\ Finished(r)
        /\ rmFailed[r]
        /\ fs[TempFilePath(filename[r])] # 0
        /\ outcome[r].kind = "raise"
        /\ outcome[r].prefix = "Transcription failed: "
        /\ outcome[r].cause.msg = AuthMsg

\* C17: a request that has arrived is answered in the end, with a result
\* or with a failure, and up to then the transcription has been invoked at
\* most max_retries times and the generation call at most
\* validation_attempts * max_retries times.
C17_Terminates ==
    /\ [] (\A r \in Requests :
              /\ sttCalls[r] <= max_retries
              /\ llmCalls[r] <= validation_attempts * max_retries)
    /\ \A r \in Requests :
          pc[r] # "idle" ~> (pc[r] = "done" /\ result[r].kind \in {"return", "raise"})

\* The longest run: three transcription invocations, then six generation
\* invocations, the last of which fails.
C17_Witness ==
    \E r \in Requests :
        /\ Finished(r)
        /\ sttCalls[r] = max_retries
        /\ llmCalls[r] = validation_attempts * max_retries
        /\ outcome[r].kind = "raise"

\* C18: a result the client receives after the generation call was made
\* comes from the payload of the validation attempt the loop ended on, and
\* that payload passed the validation: the result's note is that payload's
\* note, an object with the six required fields; it has questions; its
\* transcript is the text this request's transcription returned, whatever
\* the payload says; and a payload that failed the validation on the first
\* attempt is not the one the result comes from.
C18_ResultFromValidatedPayload ==
    [][ \A r \in Requests :
          ( /\ pc[r] = "respond"
            /\ pc'[r] = "done"
            /\ llmCalls[r] > 0
            /\ result'[r].kind = "return" )
          => LET d == result'[r].doc
                 n == Len(seen[r])
             IN  /\ n = vattempt[r] + 1
                 /\ seen[r][n] \in ValidPayloads
                 /\ n = 2 => seen[r][1] \notin ValidPayloads
                 /\ d.m["note"] = seen[r][n].value.m["note"]
                 /\ d.m["note"].t = "obj"
                 /\ \A i \in DOMAIN required_fields :
                       required_fields[i] \in DOMAIN d.m["note"].m
                 /\ "questions" \in DOMAIN d.m
                 /\ d.m["transcript"] = JStr(transcript_response[r])
                 /\ transcript_response[r] \notin EmptyTexts \cup {Unbound} ]_vars

\* The first payload parsed and lacked two fields, the second is complete
\* and has a transcript key of its own; the handler is about to return.
C18_Witness ==
    \E r \in Requests :
        /\ Finished(r)
        /\ seen[r] = <<Payloads[5], Payloads[9]>>
        /\ outcome[r].kind = "return"
        /\ ClinicalDocumentation(outcome[r].doc)
        /\ outcome[r].doc.m["transcript"] # Payloads[9].value.m["transcript"]

\* C20: when an invocation of the generation call fails and
\* call_with_retries lets the failure out (the failure is not transient, or
\* it is the third invocation), the handler leaves at once with status 500
\* and the detail 'LLM call failed: ' followed by that failure, on the first
\* validation attempt and on the second: no validation attempt is used, no
\* payload is validated, the detail is not a validation message and no
\* document is returned.
C20_LlmFailurePropagates ==
    [][ \A r \in Requests :
          ( /\ pc[r] = "llm_call"
            /\ Len(fails'[r]) = Len(fails[r]) + 1
            /\ \/ fails'[r][Len(fails'[r])].msg \in PermanentMsgs
               \/ Len(fails'[r]) = max_retries )
          => /\ pc'[r] = "finally"
             /\ outcome'[r] = Raise(500, "LLM call failed: ", fails'[r][Len(fails'[r])])
             /\ outcome'[r].prefix \notin ValidationPrefixes
             /\ Deliver(outcome'[r]) = outcome'[r]
             /\ vattempt'[r] = vattempt[r]
             /\ seen'[r] = seen[r]
             /\ analysis'[r] = analysis[r] ]_vars

\* On the second validation attempt, after a payload that failed the
\* validation, the third invocation fails with a transient failure: the
\* request fails with that failure.
C20_Witness ==
    \E r \in Requests :
        /\ Finished(r)
        /\ vattempt[r] = 1
        /\ seen[r] = <<Payloads[3]>>
        /\ Len(fails[r]) = max_retries
        /\ fails[r][max_retries].msg = ConnectionMsg
        /\ outcome[r] = Raise(500, "LLM call failed: ", fails[r][max_retries])

====
